---------------------------- MODULE Spec2Model ----------------------------
(***************************************************************************)
(* Batched diffusion-limited aggregation engine of                         *)
(* apps/bacterial_dla_app.py: class DLASimulation (constructor,            *)
(* _spawn_walkers, step) and its driver loop.                              *)
(*                                                                         *)
(* The grid is the set of its occupied cells (grid[x, y] == 1 iff          *)
(* <<x, y>> \in grid).  walker_x, walker_y and active are the numpy        *)
(* arrays, as functions over the indices 0 .. batch_size - 1.              *)
(*                                                                         *)
(* Random inputs.  np.random draws are inputs of the actions:              *)
(*   - a direction index, np.random.randint(0, 4), from 0 .. 3;            *)
(*   - a uniform number of [0, 1), np.random.random(), in hundredths,      *)
(*     from UniformDraws; sticking_prob is in hundredths as well;          *)
(*   - an angle, np.random.uniform(0, 2 pi), from Angles: angles whose     *)
(*     cosine and sine are rational, <<a, b, d>> standing for              *)
(*     cos = a / d and sin = b / d, so that center + birth_r * cos is an   *)
(*     exact rational and astype(np.int32) its truncation toward zero.     *)
(*                                                                         *)
(* Spec is one simulation, its draws being any values of these sets.       *)
(* SpecShared is two simulations of one process: there the draws come, in  *)
(* the order the code makes them, from the one generator np.random is, a   *)
(* deterministic function of its state (a small linear congruential        *)
(* generator stands for numpy's).                                          *)
(***************************************************************************)
EXTENDS Integers, Sequences, FiniteSets

\* ------------------------------------------------------------- bounds
\* No new step() call starts once this many cells are occupied.
MaxParticles == 3
\* The step() calls made on each of two objects (SpecShared).
MaxCalls == 2

\* ------------------------------------------------------------ constants
\* birth_r = self.max_radius + 5
SpawnMargin == 5
\* kill_r_sq = (self.max_radius + 50) ** 2
KillMargin == 50

\* (grid_size, batch_size) pairs a simulation is constructed with.
Configs == { <<0, 1>>, <<1, 1>>, <<2, 1>>, <<4, 1>>, <<9, 2>>, <<15, 1>> }

\* steps_per_call arguments.
StepsPerCall == { 1, 2 }
\* sticking_prob arguments of the driver, in hundredths: 0.5 and 1.0 of its
\* slider's 0.01 .. 1.0.
StickingProbs == { 50, 100 }
\* Values of np.random.random(), in hundredths: a number of [0, 1).
UniformDraws == { 0, 50 }
\* Values of np.random.uniform(0, 2 pi): the angle of the 3-4-5 triangle in
\* the first quadrant, and its mirror image in the third quadrant.
Angles == { <<3, 4, 5>>, <<-4, -3, 5>> }
\* Values of np.random.randint(0, 4): indices into self.neighbors.
Moves == 0 .. 3

VARIABLES
    grid_size,        \* self.grid_size
    batch_size,       \* self.batch_size
    grid,             \* self.grid: the set of cells holding 1
    center,           \* self.center
    particles_added,  \* self.particles_added
    max_radius,       \* self.max_radius
    walker_x,         \* self.walker_x
    walker_y,         \* self.walker_y
    active,           \* self.active
    pc,               \* "idle": between calls; "step": inside step();
                      \* "failed": the constructor raised
    exc,              \* the exception the constructor raised, or "none"
    sticking_prob,    \* step()'s argument, while inside step()
    steps_left,       \* iterations of `for _ in range(steps_per_call)` left
    added,            \* step()'s local `added`
    kill_r_sq,        \* step()'s local `kill_r_sq`
    ret,              \* the value the last step() call returned (-1: none yet)
    pa_entry,         \* particles_added when the current/last call began
    occ_entry,        \* number of occupied cells when that call began
    last,             \* what the last loop iteration did (see NoIteration)
    \* Two simulations in one process (SpecShared), a record of:
    \*   np_random     the state of numpy's process-wide generator
    \*   sims          the objects A and B
    \*   live          the objects constructed so far
    \*   born          np_random when each object was constructed
    \*   calls         the (p, n) arguments of each object's step() calls
    \*   alone         object A as it is when no other object exists
    \*   alone_random  the generator of that run
    \*   reseeded      np.random.seed() was called after A's construction
    process,
    \* A call of box_counting_dimension: its position, arguments, locals and
    \* result (see NoEstimate)
    est

vars == << grid_size, batch_size, grid, center, particles_added, max_radius,
           walker_x, walker_y, active, pc, exc, sticking_prob, steps_left,
           added, kill_r_sq, ret, pa_entry, occ_entry, last >>

all_vars == << vars, process, est >>

\* ---------------------------------------------------------- arithmetic
Min(a, b) == IF a <= b THEN a ELSE b
Max(a, b) == IF a >= b THEN a ELSE b

\* (num / den).astype(np.int32) for den > 0: truncation toward zero.
Trunc(num, den) == IF num >= 0 THEN num \div den ELSE -((-num) \div den)

\* int(np.sqrt(n)) for n >= 0.
ISqrt(n) == CHOOSE k \in 0..n : k * k <= n /\ (k + 1) * (k + 1) > n

\* np.clip(v, lo, hi) == minimum(maximum(v, lo), hi)
Clip(v, lo, hi) == Min(Max(v, lo), hi)

\* self.neighbors, indexed from 1.
neighbors == << <<0, 1>>, <<0, -1>>, <<1, 0>>, <<-1, 0>> >>

\* The indices of the walker arrays.
Walkers(bs) == 0 .. bs - 1

\* Arrays of draws: a draw of D for every index of S, dflt elsewhere (the
\* entries the code never reads).
DrawsOn(bs, S, D, dflt) ==
    { [i \in Walkers(bs) |-> IF i \in S THEN f[i] ELSE dflt] : f \in [S -> D] }

\* ------------------------------------------------------------- spawning
\* A variant of SpawnX: the cosine is not scaled by the birth radius.
SpawnX_NoRadius(c, birth_r, ang) == Trunc(c * ang[3] + ang[1], ang[3])

\* (self.center + birth_r * np.cos(angle)).astype(np.int32)
SpawnX(c, birth_r, ang) == Trunc(c * ang[3] + birth_r * ang[1], ang[3])
\* (self.center + birth_r * np.sin(angle)).astype(np.int32)
SpawnY(c, birth_r, ang) == Trunc(c * ang[3] + birth_r * ang[2], ang[3])

\* ---------------------------------------------------- micro-step phases
\* np.where(self.active, self.walker_x + dx, self.walker_x)
MoveX(bs, wx, act, move_idx) ==
    [i \in Walkers(bs) |->
        IF act[i] THEN wx[i] + neighbors[move_idx[i] + 1][1] ELSE wx[i]]
\* np.where(self.active, self.walker_y + dy, self.walker_y)
MoveY(bs, wy, act, move_idx) ==
    [i \in Walkers(bs) |->
        IF act[i] THEN wy[i] + neighbors[move_idx[i] + 1][2] ELSE wy[i]]

\* escaped = dist_sq > kill_r_sq
Escaped(c, krsq, x, y) == (x - c) * (x - c) + (y - c) * (y - c) > krsq

\* A variant of OutOfBounds: only coordinates outside the array count.
OutOfBounds_ArrayOnly(gs, x, y) == x < 0 \/ x >= gs \/ y < 0 \/ y >= gs

\* out_of_bounds
OutOfBounds(gs, x, y) == x < 1 \/ x >= gs - 1 \/ y < 1 \/ y >= gs - 1

\* A variant of HasNeighbor: the diagonal neighbours count as well.
HasNeighbor_Diagonal(gs, g, x, y) ==
    \E dx, dy \in { -1, 0, 1 } :
        /\ << dx, dy >> # << 0, 0 >>
        /\ << Clip(x + dx, 0, gs - 1), Clip(y + dy, 0, gs - 1) >> \in g

\* has_neighbor: some clipped neighbour cell holds a value > 0.
HasNeighbor(gs, g, x, y) ==
    \E n \in 1..4 :
        << Clip(x + neighbors[n][1], 0, gs - 1),
           Clip(y + neighbors[n][2], 0, gs - 1) >> \in g

\* A variant of StickDraw: the comparison includes equality.
StickDraw_Inclusive(u, p) == u <= p

\* np.random.random() < sticking_prob
StickDraw(u, p) == u < p

\* A variant of CommitOne: particles_added is set from the call's counter.
CommitOne_CallCount(c, a, px, py) ==
    IF <<px, py>> \notin a.grid
    THEN [ grid            |-> a.grid \cup { <<px, py>> },
           particles_added |-> a.added,
           added           |-> a.added + 1,
           max_radius      |->
               Max(a.max_radius,
                   ISqrt((px - c) * (px - c) + (py - c) * (py - c)) + 1) ]
    ELSE a

\* A variant of CommitOne: the cell is not tested before it is counted.
CommitOne_NoCheck(c, a, px, py) ==
    [ grid            |-> a.grid \cup { <<px, py>> },
      particles_added |-> a.particles_added + 1,
      added           |-> a.added + 1,
      max_radius      |->
          Max(a.max_radius,
              ISqrt((px - c) * (px - c) + (py - c) * (py - c)) + 1) ]

\* A variant of CommitOne: particles_added is not incremented.
CommitOne_NoCount(c, a, px, py) ==
    IF <<px, py>> \notin a.grid
    THEN [ grid            |-> a.grid \cup { <<px, py>> },
           particles_added |-> a.particles_added,
           added           |-> a.added + 1,
           max_radius      |->
               Max(a.max_radius,
                   ISqrt((px - c) * (px - c) + (py - c) * (py - c)) + 1) ]
    ELSE a

\* A variant of CommitOne: max_radius is raised to r, not to r + 1.
CommitOne_NoPlusOne(c, a, px, py) ==
    IF <<px, py>> \notin a.grid
    THEN [ grid            |-> a.grid \cup { <<px, py>> },
           particles_added |-> a.particles_added + 1,
           added           |-> a.added + 1,
           max_radius      |->
               Max(a.max_radius,
                   ISqrt((px - c) * (px - c) + (py - c) * (py - c))) ]
    ELSE a

\* A variant of CommitOne: a stick on an occupied cell counts in `added`.
CommitOne_CountsOccupied(c, a, px, py) ==
    IF <<px, py>> \notin a.grid
    THEN [ grid            |-> a.grid \cup { <<px, py>> },
           particles_added |-> a.particles_added + 1,
           added           |-> a.added + 1,
           max_radius      |->
               Max(a.max_radius,
                   ISqrt((px - c) * (px - c) + (py - c) * (py - c)) + 1) ]
    ELSE [ a EXCEPT !.added = a.added + 1 ]

\* A variant of CommitOne: max_radius is set to r + 1, whatever it was.
CommitOne_LastRadius(c, a, px, py) ==
    IF <<px, py>> \notin a.grid
    THEN [ grid            |-> a.grid \cup { <<px, py>> },
           particles_added |-> a.particles_added + 1,
           added           |-> a.added + 1,
           max_radius      |->
               ISqrt((px - c) * (px - c) + (py - c) * (py - c)) + 1 ]
    ELSE a

\* The body of `for idx in stick_indices` for one walker at (px, py), on the
\* record a = [grid, particles_added, added, max_radius].
CommitOne(c, a, px, py) ==
    IF <<px, py>> \notin a.grid
    THEN [ grid            |-> a.grid \cup { <<px, py>> },
           particles_added |-> a.particles_added + 1,
           added           |-> a.added + 1,
           max_radius      |->
               Max(a.max_radius,
                   ISqrt((px - c) * (px - c) + (py - c) * (py - c)) + 1) ]
    ELSE a

\* `for idx in stick_indices`: the sticking walkers in increasing index.
RECURSIVE CommitFrom(_, _, _, _, _, _, _)
CommitFrom(c, bs, a, wx, wy, will_stick, idx) ==
    IF idx >= bs THEN a
    ELSE CommitFrom(c, bs,
                    IF will_stick[idx] THEN CommitOne(c, a, wx[idx], wy[idx])
                    ELSE a,
                    wx, wy, will_stick, idx + 1)


\* A variant of Deactivate: the bounds check is left out.
Deactivate_EscapeOnly(gs, c, bs, krsq, wx, wy, act) ==
    [i \in Walkers(bs) |-> act[i] /\ ~Escaped(c, krsq, wx[i], wy[i])]

\* self.active & ~escaped & ~out_of_bounds
Deactivate(gs, c, bs, krsq, wx, wy, act) ==
    [i \in Walkers(bs) |->
        act[i] /\ ~Escaped(c, krsq, wx[i], wy[i])
               /\ ~OutOfBounds(gs, wx[i], wy[i])]

\* A variant of WillStick: contact with the aggregate is not required.
WillStick_NoContact(gs, bs, g, wx, wy, act, u, p) ==
    [i \in Walkers(bs) |-> act[i] /\ StickDraw(u[i], p)]

\* will_stick = self.active & has_neighbor & (random < sticking_prob)
WillStick(gs, bs, g, wx, wy, act, u, p) ==
    [i \in Walkers(bs) |->
        act[i] /\ HasNeighbor(gs, g, wx[i], wy[i]) /\ StickDraw(u[i], p)]

\* A variant of DeactivateStuck: only the first sticking walker is
\* deactivated.
DeactivateStuck_FirstOnly(bs, act, will_stick) ==
    [i \in Walkers(bs) |->
        act[i] /\ ~(will_stick[i] /\ \A j \in 0 .. i - 1 : ~will_stick[j])]

\* self.active & ~will_stick
DeactivateStuck(bs, act, will_stick) ==
    [i \in Walkers(bs) |-> act[i] /\ ~will_stick[i]]

\* self.walker_x[inactive] = ... : the walkers of `inactive` are put on the
\* circle of radius max_radius + 5, the others keep their position.
RespawnX(c, bs, mr, wx, inactive, ang) ==
    [i \in Walkers(bs) |->
        IF i \in inactive THEN SpawnX(c, mr + SpawnMargin, ang[i]) ELSE wx[i]]
RespawnY(c, bs, mr, wy, inactive, ang) ==
    [i \in Walkers(bs) |->
        IF i \in inactive THEN SpawnY(c, mr + SpawnMargin, ang[i]) ELSE wy[i]]
\* A variant of Reactivate: the flags are left as they are.
Reactivate_Missing(bs, act, inactive) == act

\* self.active[inactive] = True
Reactivate(bs, act, inactive) ==
    [i \in Walkers(bs) |-> IF i \in inactive THEN TRUE ELSE act[i]]

\* ------------------------------------------------- the simulation object
\* A DLASimulation object is a record s of its attributes.  The operators
\* below are the pieces of its methods, on such a record.

\* A variant of SeedGrid: the seed is written in the corner cell.
SeedGrid_Corner(c) == { <<0, 0>> }

\* A variant of SeedGrid: the seed is not written.
SeedGrid_Missing(c) == {}

\* self.grid = np.zeros(...); self.grid[self.center, self.center] = 1
SeedGrid(c) == { <<c, c>> }

\* DLASimulation(gs, bs) for gs >= 1, the angles of _spawn_walkers being ang.
\* No check of the side is made.
Construct(gs, bs, ang) ==
    [ grid_size       |-> gs,
      batch_size      |-> bs,
      center          |-> gs \div 2,
      grid            |-> SeedGrid(gs \div 2),
      particles_added |-> 1,
      max_radius      |-> 1,
      walker_x        |-> RespawnX(gs \div 2, bs, 1, << >>, Walkers(bs), ang),
      walker_y        |-> RespawnY(gs \div 2, bs, 1, << >>, Walkers(bs), ang),
      active          |-> [i \in Walkers(bs) |-> TRUE] ]

\* DLASimulation(0, bs): np.zeros((0, 0)) has no cell, grid[0, 0] = 1 raises
\* IndexError, and nothing after it is assigned.
ConstructFailed(gs, bs) ==
    [ grid_size       |-> gs,
      batch_size      |-> bs,
      center          |-> gs \div 2,
      grid            |-> {},
      particles_added |-> 0,
      max_radius      |-> 0,
      walker_x        |-> << >>,
      walker_y        |-> << >>,
      active          |-> << >> ]

\* The walkers the guard `if not np.any(self.active): self._spawn_walkers()`
\* spawns afresh: all of them, or none.
FreshBatch(s) ==
    IF \A i \in Walkers(s.batch_size) : ~s.active[i]
    THEN Walkers(s.batch_size) ELSE {}

\* Lines 62-82 with the angles ang0 and the directions move_idx: the walkers
\* after the respawn-if-empty guard, the move and the escape and bounds checks.
MoveAndCheck(s, krsq, ang0, move_idx) ==
    LET bs == s.batch_size
        fresh == FreshBatch(s)
        sx == RespawnX(s.center, bs, s.max_radius, s.walker_x, fresh, ang0)
        sy == RespawnY(s.center, bs, s.max_radius, s.walker_y, fresh, ang0)
        act0 == Reactivate(bs, s.active, fresh)
        mx == MoveX(bs, sx, act0, move_idx)
        my == MoveY(bs, sy, act0, move_idx)
    IN  [ x |-> mx, y |-> my,
          active |-> Deactivate(s.grid_size, s.center, bs, krsq, mx, my, act0) ]

\* if not np.any(self.active): continue
NoneActive(s, m) == \A i \in Walkers(s.batch_size) : ~m.active[i]

\* The walkers whose uniform draw decides something: active, with a neighbour.
Candidates(s, m) ==
    { i \in Walkers(s.batch_size) :
        m.active[i] /\ HasNeighbor(s.grid_size, s.grid, m.x[i], m.y[i]) }

\* A variant of StickAndCommit: `added` starts from 0 in every iteration.
StickAndCommit_ResetAdded(s, p, add, m, u) ==
    LET will_stick == WillStick(s.grid_size, s.batch_size, s.grid, m.x, m.y,
                                m.active, u, p)
    IN  [ will_stick |-> will_stick,
          a |-> CommitFrom(s.center, s.batch_size,
                           [ grid |-> s.grid,
                             particles_added |-> s.particles_added,
                             added |-> 0,
                             max_radius |-> s.max_radius ],
                           m.x, m.y, will_stick, 0),
          active |-> DeactivateStuck(s.batch_size, m.active, will_stick) ]

\* A variant of StickAndCommit: the walkers are tested and committed one
\* after the other, each contact test reading the cells the walkers before
\* it have occupied.
StickAndCommit_Sequential(s, p, add, m, u) ==
    LET RECURSIVE From(_, _, _)
        From(a, ws, idx) ==
            IF idx >= s.batch_size THEN [ a |-> a, will_stick |-> ws ]
            ELSE LET sticks ==
                         /\ m.active[idx]
                         /\ HasNeighbor(s.grid_size, a.grid,
                                        m.x[idx], m.y[idx])
                         /\ StickDraw(u[idx], p)
                 IN  From(IF sticks
                          THEN CommitOne(s.center, a, m.x[idx], m.y[idx])
                          ELSE a,
                          [ws EXCEPT ![idx] = sticks], idx + 1)
        r == From([ grid |-> s.grid,
                    particles_added |-> s.particles_added,
                    added |-> add,
                    max_radius |-> s.max_radius ],
                  [i \in Walkers(s.batch_size) |-> FALSE], 0)
    IN  [ will_stick |-> r.will_stick,
          a |-> r.a,
          active |-> DeactivateStuck(s.batch_size, m.active, r.will_stick) ]

\* Lines 87-109 with the uniform draws u, the walkers being m and `added`
\* being add: the sticking walkers, the result of their commit, and the
\* walkers still active after it.
StickAndCommit(s, p, add, m, u) ==
    LET will_stick == WillStick(s.grid_size, s.batch_size, s.grid, m.x, m.y,
                                m.active, u, p)
    IN  [ will_stick |-> will_stick,
          a |-> CommitFrom(s.center, s.batch_size,
                           [ grid |-> s.grid,
                             particles_added |-> s.particles_added,
                             added |-> add,
                             max_radius |-> s.max_radius ],
                           m.x, m.y, will_stick, 0),
          active |-> DeactivateStuck(s.batch_size, m.active, will_stick) ]

\* inactive = ~self.active
Inactive(s, c) == { i \in Walkers(s.batch_size) : ~c.active[i] }

\* The object at the end of an iteration that ended in `continue`.
AfterContinue(s, m) ==
    [ s EXCEPT !.walker_x = m.x, !.walker_y = m.y, !.active = m.active ]

\* The object at the end of an iteration that went through: the commit c is
\* stored and the inactive walkers are respawned (lines 111-119) with angles ang.
AfterRespawn(s, m, c, ang) ==
    [ s EXCEPT !.grid = c.a.grid,
               !.particles_added = c.a.particles_added,
               !.max_radius = c.a.max_radius,
               !.walker_x = RespawnX(s.center, s.batch_size, c.a.max_radius,
                                     m.x, Inactive(s, c), ang),
               !.walker_y = RespawnY(s.center, s.batch_size, c.a.max_radius,
                                     m.y, Inactive(s, c), ang),
               !.active = Reactivate(s.batch_size, c.active, Inactive(s, c)) ]

\* kill_r_sq = (self.max_radius + 50) ** 2
KillRSq(s) == (s.max_radius + KillMargin) * (s.max_radius + KillMargin)

\* ------------------------------------------------- one simulation (Spec)
\* The object the variables hold.
Self ==
    [ grid_size       |-> grid_size,
      batch_size      |-> batch_size,
      center          |-> center,
      grid            |-> grid,
      particles_added |-> particles_added,
      max_radius      |-> max_radius,
      walker_x        |-> walker_x,
      walker_y        |-> walker_y,
      active          |-> active ]

\* The variables hold the object s.
Holds(s) ==
    /\ grid_size = s.grid_size
    /\ batch_size = s.batch_size
    /\ center = s.center
    /\ grid = s.grid
    /\ particles_added = s.particles_added
    /\ max_radius = s.max_radius
    /\ walker_x = s.walker_x
    /\ walker_y = s.walker_y
    /\ active = s.active

\* The variables hold the object s after the step.
Becomes(s) ==
    /\ grid' = s.grid
    /\ particles_added' = s.particles_added
    /\ max_radius' = s.max_radius
    /\ walker_x' = s.walker_x
    /\ walker_y' = s.walker_y
    /\ active' = s.active
    /\ UNCHANGED << grid_size, batch_size, center >>

\* The record of a loop iteration, kept for the properties:
\*   stuck:   for each walker, the cell it stuck on (will_stick), or << >>;
\*   fresh:   the cells that went from 0 to 1 in the iteration;
\*   d_added: the growth of `added` in the iteration;
\*   d_pa:    the growth of particles_added in the iteration.
NoIteration == [ stuck |-> << >>, fresh |-> {}, d_added |-> 0, d_pa |-> 0 ]

IterationRecord(s, add, m, c) ==
    [ stuck   |-> [i \in Walkers(s.batch_size) |->
                      IF c.will_stick[i] THEN <<m.x[i], m.y[i]>> ELSE << >>],
      fresh   |-> c.a.grid \ s.grid,
      d_added |-> c.a.added - add,
      d_pa    |-> c.a.particles_added - s.particles_added ]

\* The construction DLASimulation(grid_size, batch_size) of the driver.
InitWith(configs, angles) ==
    /\ \E cfg \in configs :
          IF cfg[1] = 0
          THEN /\ Holds(ConstructFailed(cfg[1], cfg[2]))
               /\ pc = "failed"
               /\ exc = "IndexError"
          ELSE /\ \E ang \in [Walkers(cfg[2]) -> angles] :
                     Holds(Construct(cfg[1], cfg[2], ang))
               /\ pc = "idle"
               /\ exc = "none"
    /\ sticking_prob = 0
    /\ steps_left = 0
    /\ added = 0
    /\ kill_r_sq = 0
    /\ ret = -1
    /\ pa_entry = 0
    /\ occ_entry = 0
    /\ last = NoIteration

InitOne == InitWith(Configs, Angles)

\* A variant of EndIteration: an iteration of a call in which no walker
\* has stuck yet is not counted.
EndIteration_UntilStick(p, krsq, add, left) ==
    IF left > 1 \/ add = 0
    THEN /\ pc' = "step"
         /\ steps_left' = IF add = 0 THEN left ELSE left - 1
         /\ sticking_prob' = p
         /\ kill_r_sq' = krsq
         /\ added' = add
         /\ ret' = -1
    ELSE /\ pc' = "idle"
         /\ steps_left' = 0
         /\ sticking_prob' = 0
         /\ kill_r_sq' = 0
         /\ added' = 0
         /\ ret' = add

\* The end of a loop iteration of a call with argument p and locals krsq and
\* add, `left` iterations being left before it: the loop goes on, or step()
\* returns `added` and its locals are gone.
EndIteration(p, krsq, add, left) ==
    IF left > 1
    THEN /\ pc' = "step"
         /\ steps_left' = left - 1
         /\ sticking_prob' = p
         /\ kill_r_sq' = krsq
         /\ added' = add
         /\ ret' = -1
    ELSE /\ pc' = "idle"
         /\ steps_left' = 0
         /\ sticking_prob' = 0
         /\ kill_r_sq' = 0
         /\ added' = 0
         /\ ret' = add

\* One iteration of `for _ in range(steps_per_call)`, lines 62-119, of a call
\* with argument p and locals krsq and add, `left` iterations being left.
\* The draws are inputs; only the draws the code's result depends on vary.
IterationWith(p, krsq, add, left, angles, moves) ==
    \E ang0 \in DrawsOn(batch_size, FreshBatch(Self), angles, <<3, 4, 5>>) :
    \E move_idx \in [Walkers(batch_size) -> moves] :
    \E m \in { MoveAndCheck(Self, krsq, ang0, move_idx) } :
        IF NoneActive(Self, m)
        THEN /\ Becomes(AfterContinue(Self, m))
             /\ last' = NoIteration
             /\ EndIteration(p, krsq, add, left)
        ELSE \E u \in DrawsOn(batch_size, Candidates(Self, m), UniformDraws, 50) :
             \E c \in { StickAndCommit(Self, p, add, m, u) } :
             \E ang \in DrawsOn(batch_size, Inactive(Self, c), angles, <<3, 4, 5>>) :
                 /\ Becomes(AfterRespawn(Self, m, c, ang))
                 /\ last' = IterationRecord(Self, add, m, c)
                 /\ EndIteration(p, krsq, c.a.added, left)

\* step(p, n) is called: added = 0, kill_r_sq = (self.max_radius + 50) ** 2,
\* and the first iteration of its loop runs, its draws being of `angles`
\* and `moves`.
StepCallWith(p, n, angles, moves) ==
    /\ pc = "idle"
    /\ particles_added < MaxParticles
    /\ pa_entry' = particles_added
    /\ occ_entry' = Cardinality(grid)
    /\ IterationWith(p, KillRSq(Self), 0, n, angles, moves)
    /\ UNCHANGED << exc, process, est >>

\* A later iteration of the loop of the call in progress.
StepLoopWith(angles, moves) ==
    /\ pc = "step"
    /\ IterationWith(sticking_prob, kill_r_sq, added, steps_left, angles, moves)
    /\ UNCHANGED << exc, pa_entry, occ_entry, process, est >>

\* An iteration whose draws are any of Angles and Moves.
Iteration(p, krsq, add, left) ==
    IterationWith(p, krsq, add, left, Angles, Moves)

StepCall(p, n) == StepCallWith(p, n, Angles, Moves)

StepLoop == StepLoopWith(Angles, Moves)

\* The driver's `added = sim.step(sticking_prob, steps_per_frame)`.
Step == \E p \in StickingProbs, n \in StepsPerCall : StepCall(p, n)

\* -------------------------------------------- box_counting_dimension
\* A binary image is a record of its shape (rows, cols) and of the cells
\* (x, y), 0 <= x < rows, 0 <= y < cols, that hold a value > 0.
NoImage == [ rows |-> 0, cols |-> 0, cells |-> {} ]

\* `return 1.71`, in hundredths.
FallbackDimension == 171

\* What a call returns: the constant 1.71, or coeffs[0], the slope of the
\* least-squares line through the points (log(1 / sizes[k]), log(counts[k])).
NoResult == [ kind |-> "none", hundredths |-> 0, sizes |-> << >>,
              counts |-> << >> ]
Fallback == [ kind |-> "constant", hundredths |-> FallbackDimension,
              sizes |-> << >>, counts |-> << >> ]
FittedSlope(sizes, counts) ==
    [ kind |-> "slope", hundredths |-> 0, sizes |-> sizes, counts |-> counts ]

\* No call of the estimator was made.
NoEstimate ==
    [ pc |-> "none", image |-> NoImage, min_box_size |-> 0,
      max_box_size |-> 0, size |-> 0, box_sizes |-> << >>,
      counts |-> << >>, result |-> NoResult ]

\* A variant of DefaultMaxBoxSize: a quarter of the side, not an eighth.
DefaultMaxBoxSize_Quarter(img) == Min(img.rows, img.cols) \div 4

\* max_box_size = min(binary_image.shape) // 8
DefaultMaxBoxSize(img) == Min(img.rows, img.cols) \div 8

\* range(0, n, step)
Range(n, step) == { i \in 0 .. n - 1 : i % step = 0 }

\* A variant of BoxCells: the slice takes one row and one column too many.
BoxCells_Overlap(img, i, j, box_size) ==
    { cell \in img.cells :
        /\ i <= cell[1] /\ cell[1] <= i + box_size
        /\ j <= cell[2] /\ cell[2] <= j + box_size }

\* box = binary_image[i:i+box_size, j:j+box_size]: the cells > 0 of the slice,
\* which ends where the image ends.
BoxCells(img, i, j, box_size) ==
    { cell \in img.cells :
        /\ i <= cell[1] /\ cell[1] < Min(i + box_size, img.rows)
        /\ j <= cell[2] /\ cell[2] < Min(j + box_size, img.cols) }

\* n_boxes after the loops over i and j for one box size.
CountBoxes(img, box_size) ==
    Cardinality({ t \in Range(img.rows, box_size) \X Range(img.cols, box_size) :
                    BoxCells(img, t[1], t[2], box_size) # {} })

\* A variant of Degenerate: one box size is taken to be enough.
Degenerate_OneSize(counts) ==
    Len(counts) < 1 \/ \E k \in 1 .. Len(counts) : counts[k] = 0

\* len(counts) < 2 or np.any(counts == 0)
Degenerate(counts) ==
    Len(counts) < 2 \/ \E k \in 1 .. Len(counts) : counts[k] = 0

\* box_counting_dimension(img, mn, mx) is called: the arguments are bound
\* and size = min_box_size.
EstimateCall(img, mn, mx) ==
    /\ est.pc \in { "none", "done" }
    /\ est' = [ pc |-> "sizes", image |-> img, min_box_size |-> mn,
                max_box_size |-> mx, size |-> mn, box_sizes |-> << >>,
                counts |-> << >>, result |-> NoResult ]
    /\ UNCHANGED << vars, process >>

\* A variant of SizeLoop: the size grows by one.
SizeLoop_Increment ==
    /\ est.pc = "sizes"
    /\ IF est.size <= est.max_box_size
       THEN est' = [est EXCEPT !.box_sizes = Append(@, est.size),
                               !.size = @ + 1]
       ELSE est' = [est EXCEPT !.pc = "counts"]
    /\ UNCHANGED << vars, process >>

\* while size <= max_box_size: box_sizes.append(size); size *= 2
SizeLoop ==
    /\ est.pc = "sizes"
    /\ IF est.size <= est.max_box_size
       THEN est' = [est EXCEPT !.box_sizes = Append(@, est.size),
                               !.size = @ * 2]
       ELSE est' = [est EXCEPT !.pc = "counts"]
    /\ UNCHANGED << vars, process >>

\* A variant of CountLoop: the boxes counted are cleared in the grid.
CountLoop_Consuming ==
    /\ est.pc = "counts"
    /\ IF Len(est.counts) < Len(est.box_sizes)
       THEN /\ est' = [est EXCEPT !.counts =
                          Append(@, CountBoxes(est.image,
                                      est.box_sizes[Len(est.counts) + 1]))]
            /\ grid' = {}
       ELSE /\ est' = [est EXCEPT !.pc = "fit"]
            /\ UNCHANGED grid
    /\ UNCHANGED << grid_size, batch_size, center, particles_added,
                    max_radius, walker_x, walker_y, active, pc, exc,
                    sticking_prob, steps_left, added, kill_r_sq, ret,
                    pa_entry, occ_entry, last, process >>

\* for box_size in box_sizes: ...; counts.append(n_boxes)
CountLoop ==
    /\ est.pc = "counts"
    /\ IF Len(est.counts) < Len(est.box_sizes)
       THEN est' = [est EXCEPT !.counts =
                       Append(@, CountBoxes(est.image,
                                   est.box_sizes[Len(est.counts) + 1]))]
       ELSE est' = [est EXCEPT !.pc = "fit"]
    /\ UNCHANGED << vars, process >>

\* The degenerate-input test, the fit and the return.
EstimateReturn ==
    /\ est.pc = "fit"
    /\ est' = [est EXCEPT
                  !.pc = "done",
                  !.result = IF Degenerate(est.counts) THEN Fallback
                             ELSE FittedSlope(est.box_sizes, est.counts)]
    /\ UNCHANGED << vars, process >>

\* -------------------------------------- two simulations (SpecShared)
\* The names of the two objects.
Instances == { "A", "B" }
\* The (grid_size, batch_size) both are constructed with.
SharedConfig == << 15, 1 >>
\* Arguments of np.random.seed().
Seeds == 0 .. 3
\* sticking_prob and steps_per_call arguments of the calls on them.
SharedProbs == { 100 }
SharedSteps == { 1, 6 }

\* No object.
NoSim == ConstructFailed(0, 0)

\* The generator's next state.
NextRandom(x) == (9 * x + 21) % 64
\* The state after k draws.
RECURSIVE RandomAfter(_, _)
RandomAfter(x, k) == IF k = 0 THEN x ELSE RandomAfter(NextRandom(x), k - 1)
\* The j-th value (from 0) drawn from state x, a number of 0 .. 63.
RawDraw(x, j) == RandomAfter(x, j)

\* np.random.randint(0, 4, k), np.random.random(k) in hundredths and
\* np.random.uniform(0, 2 * np.pi, k) from state x: arrays over 0 .. k - 1.
RandInt4(x, k) == [j \in 0 .. k - 1 |-> (4 * RawDraw(x, j)) \div 64]
Random01(x, k) == [j \in 0 .. k - 1 |-> (100 * RawDraw(x, j)) \div 64]
UniformAngle(x, k) ==
    [j \in 0 .. k - 1 |->
        IF 2 * RawDraw(x, j) < 64 THEN <<3, 4, 5>> ELSE <<-4, -3, 5>>]

\* The array a[inactive] = values: the j-th value goes to the j-th index of S.
Scatter(bs, S, values) ==
    [i \in Walkers(bs) |->
        IF i \in S THEN values[Cardinality({ j \in S : j < i })]
        ELSE <<3, 4, 5>>]

\* One iteration of the loop (lines 62-119) on object s, the generator being
\* in state x: the object, `added` and the generator after it.
IterationOn(s, p, krsq, add, x) ==
    LET bs == s.batch_size
        fresh == FreshBatch(s)
        ang0 == Scatter(bs, fresh, UniformAngle(x, Cardinality(fresh)))
        x1 == RandomAfter(x, Cardinality(fresh))
        move_idx == RandInt4(x1, bs)
        x2 == RandomAfter(x1, bs)
        m == MoveAndCheck(s, krsq, ang0, move_idx)
    IN  IF NoneActive(s, m)
        THEN [ s |-> AfterContinue(s, m), added |-> add, x |-> x2 ]
        ELSE LET u == Random01(x2, bs)
                 x3 == RandomAfter(x2, bs)
                 c == StickAndCommit(s, p, add, m, u)
                 inactive == Inactive(s, c)
                 ang == Scatter(bs, inactive,
                                UniformAngle(x3, Cardinality(inactive)))
             IN  [ s |-> AfterRespawn(s, m, c, ang),
                   added |-> c.a.added,
                   x |-> RandomAfter(x3, Cardinality(inactive)) ]

\* `left` iterations of the loop.
RECURSIVE LoopOn(_, _, _, _, _, _)
LoopOn(s, p, krsq, add, left, x) ==
    IF left = 0 THEN [ s |-> s, added |-> add, x |-> x ]
    ELSE LET r == IterationOn(s, p, krsq, add, x)
         IN  LoopOn(r.s, p, krsq, r.added, left - 1, r.x)

\* s.step(p, n), the generator being in state x.
StepOn(s, p, n, x) == LoopOn(s, p, KillRSq(s), 0, n, x)

\* DLASimulation(gs, bs), the generator being in state x.
ConstructOn(gs, bs, x) ==
    [ s |-> Construct(gs, bs, UniformAngle(x, bs)), x |-> RandomAfter(x, bs) ]

\* np.random.seed(v), by the harness that owns the process.
SeedRandom(v) ==
    /\ v \in Seeds
    /\ \E i \in Instances : i \notin process.live
    /\ process' = [process EXCEPT
                       !.np_random = v,
                       !.alone_random = v,
                       !.reseeded = (@ \/ "A" \in process.live)]

\* The run of A alone follows what is done to A.
AloneAfter(i, r) ==
    IF i = "A" THEN r ELSE [ s |-> process.alone, x |-> process.alone_random ]

\* sims[i] = DLASimulation(...)
NewSim(i) ==
    /\ i \notin process.live
    /\ \E r \in { ConstructOn(SharedConfig[1], SharedConfig[2],
                              process.np_random) } :
       \E ra \in { AloneAfter(i, ConstructOn(SharedConfig[1], SharedConfig[2],
                                             process.alone_random)) } :
           process' = [process EXCEPT
                           !.sims[i] = r.s,
                           !.np_random = r.x,
                           !.live = @ \cup { i },
                           !.born[i] = process.np_random,
                           !.alone = ra.s,
                           !.alone_random = ra.x]

\* sims[i].step(p, n)
StepSim(i, p, n) ==
    /\ i \in process.live
    /\ Len(process.calls[i]) < MaxCalls
    /\ \E r \in { StepOn(process.sims[i], p, n, process.np_random) } :
       \E ra \in { AloneAfter(i, IF i = "A"
                                 THEN StepOn(process.alone, p, n,
                                             process.alone_random)
                                 ELSE r) } :
           process' = [process EXCEPT
                           !.sims[i] = r.s,
                           !.np_random = r.x,
                           !.calls[i] = Append(@, <<p, n>>),
                           !.alone = ra.s,
                           !.alone_random = ra.x]

\* No second simulation: Spec models one.
NoProcess ==
    [ np_random |-> 0,
      sims |-> [i \in Instances |-> NoSim],
      live |-> {},
      born |-> [i \in Instances |-> 0],
      calls |-> [i \in Instances |-> << >>],
      alone |-> NoSim,
      alone_random |-> 0,
      reseeded |-> FALSE ]

\* The variables of Spec when two simulations are modelled.
OneUnused ==
    /\ Holds(NoSim)
    /\ pc = "failed"
    /\ exc = "none"
    /\ sticking_prob = 0
    /\ steps_left = 0
    /\ added = 0
    /\ kill_r_sq = 0
    /\ ret = -1
    /\ pa_entry = 0
    /\ occ_entry = 0
    /\ last = NoIteration

\* A process with a seeded generator and no simulation yet.
InitShared ==
    /\ OneUnused
    /\ \E v \in Seeds :
           process = [NoProcess EXCEPT !.np_random = v, !.alone_random = v]
    /\ est = NoEstimate

Reseed == \E v \in Seeds : SeedRandom(v) /\ UNCHANGED << vars, est >>
New == \E i \in Instances : NewSim(i) /\ UNCHANGED << vars, est >>
StepOf ==
    \E i \in Instances, p \in SharedProbs, n \in SharedSteps :
        StepSim(i, p, n) /\ UNCHANGED << vars, est >>

NextShared == Reseed \/ New \/ StepOf

SpecShared == InitShared /\ [][NextShared]_all_vars

\* ---- the estimator on images (SpecEstimator)
\* At most this many cells of an image of Shapes are occupied, unless all are.
MaxCells == 2
\* Shapes of the images, and the images of each.
Shapes == { <<0, 0>>, <<3, 3>>, <<4, 5>> }
AllCells(shape) == (0 .. shape[1] - 1) \X (0 .. shape[2] - 1)
ImagesOf(shape) ==
    { [ rows |-> shape[1], cols |-> shape[2], cells |-> c ] :
        c \in { c \in SUBSET AllCells(shape) :
                  Cardinality(c) <= MaxCells \/ c = AllCells(shape) } }
\* Images large enough for the default max_box_size to admit two sizes.
LargeImages ==
    { [ rows |-> 16, cols |-> 17, cells |-> c ] :
        c \in { {}, { <<8, 8>> }, { <<0, 0>>, <<15, 16>> },
                { <<7, 7>>, <<7, 8>>, <<8, 8>> } } }
Images == UNION { ImagesOf(shape) : shape \in Shapes } \cup LargeImages
\* min_box_size and max_box_size arguments.
MinBoxSizes == { 1, 2, 3 }
MaxBoxSizes == { -1, 0, 1, 2, 4, 5, 6, 12 }

\* One call on an image, of which each behaviour of SpecEstimator is.
EstimateImage ==
    /\ est.pc = "none"
    /\ \E img \in Images, mn \in MinBoxSizes, mx \in MaxBoxSizes :
           EstimateCall(img, mn, mx)

\* The same with max_box_size=None.
EstimateImageDefault ==
    /\ est.pc = "none"
    /\ \E img \in Images, mn \in MinBoxSizes :
           EstimateCall(img, mn, DefaultMaxBoxSize(img))

\* The variables of Spec when no simulation is modelled are OneUnused.
InitEstimator == OneUnused /\ process = NoProcess /\ est = NoEstimate

NextEstimator ==
    EstimateImage \/ EstimateImageDefault \/ SizeLoop \/ CountLoop
        \/ EstimateReturn

\* A call that began runs on to its return: nothing else runs in its thread.
SpecEstimator ==
    /\ InitEstimator
    /\ [][NextEstimator]_all_vars
    /\ WF_all_vars(SizeLoop)
    /\ WF_all_vars(CountLoop)
    /\ WF_all_vars(EstimateReturn)

\* ---- the estimator on the grid of a simulation (SpecDriver)
DriverConfigs == { <<9, 1>> }
\* (min_box_size, max_box_size) arguments of the calls on the grid.
DriverBoxSizes == { <<1, 2>>, <<2, 4>> }

\* sim.grid as the estimator sees it.
GridImage == [ rows |-> grid_size, cols |-> grid_size, cells |-> grid ]

\* box_counting_dimension(sim.grid, mn, mx), between two calls of step().
EstimateGrid ==
    /\ pc = "idle"
    /\ \E a \in DriverBoxSizes : EstimateCall(GridImage, a[1], a[2])

\* D = box_counting_dimension(sim.grid)
EstimateGridDefault ==
    /\ pc = "idle"
    /\ EstimateCall(GridImage, 2, DefaultMaxBoxSize(GridImage))

\* sim.step(...) of the driver, which does nothing else meanwhile.
DriverStep == est.pc \in { "none", "done" } /\ Step

InitDriver ==
    InitWith(DriverConfigs, Angles) /\ process = NoProcess /\ est = NoEstimate

NextDriver ==
    DriverStep \/ StepLoop \/ EstimateGrid \/ EstimateGridDefault
        \/ SizeLoop \/ CountLoop \/ EstimateReturn

SpecDriver == InitDriver /\ [][NextDriver]_all_vars

\* ---------------------------------------------------- the specifications
Init == InitOne /\ process = NoProcess /\ est = NoEstimate

Next == Step \/ StepLoop

Spec == Init /\ [][Next]_all_vars

\* A caller that passes no sticking probability other than 0.0.
StepZero == \E n \in StepsPerCall : StepCall(0, n)

NextZero == StepZero \/ StepLoop

SpecZero == Init /\ [][NextZero]_all_vars

\* ---------------------------------------------------- a walker that escapes
\* The driver's smallest grid with one walker, stepped 50 iterations per
\* call (the driver's default) at sticking probability 1.0. The draws are
\* restricted to the angle pi/2 and to the moves along y, so that the walker
\* stays on the column of the seed and can reach the kill radius.
EscapeConfigs == { <<201, 1>> }

EscapeAngles == { <<0, 1, 1>> }

EscapeMoves == { 0, 1 }

EscapeSteps == { 50 }

EscapeProbs == { 100 }

StepEscape ==
    \E p \in EscapeProbs, n \in EscapeSteps :
        StepCallWith(p, n, EscapeAngles, EscapeMoves)

StepLoopEscape == StepLoopWith(EscapeAngles, EscapeMoves)

InitEscape ==
    /\ InitWith(EscapeConfigs, EscapeAngles)
    /\ process = NoProcess
    /\ est = NoEstimate

NextEscape == StepEscape \/ StepLoopEscape

SpecEscape == InitEscape /\ [][NextEscape]_all_vars

\* ------------------------------------------- two walkers on the seed's column
\* Two walkers on a grid of side 15, spawned at the angles pi/2 and 3 pi/2
\* and moved along y only: they stay on the column of the seed and reach
\* the aggregate from above and from below.
ColumnConfigs == { <<15, 2>> }

ColumnAngles == { <<0, 1, 1>>, <<0, -1, 1>> }

ColumnMoves == { 0, 1 }

StepColumn ==
    \E p \in StickingProbs, n \in StepsPerCall :
        StepCallWith(p, n, ColumnAngles, ColumnMoves)

StepLoopColumn == StepLoopWith(ColumnAngles, ColumnMoves)

InitColumn ==
    /\ InitWith(ColumnConfigs, ColumnAngles)
    /\ process = NoProcess
    /\ est = NoEstimate

NextColumn == StepColumn \/ StepLoopColumn

SpecColumn == InitColumn /\ [][NextColumn]_all_vars

\* ------------------------------------------------- calls that must return
\* One walker on grids of side 3 (whose spawn circle is outside the grid
\* from the start), 9 and 15, stepped 1 or 3 iterations per call at
\* sticking probabilities 0.0, 0.5 and 1.0.  The loop of a call in progress
\* goes on running: nothing in it waits.
TerminationConfigs == { <<3, 1>>, <<9, 1>>, <<15, 1>> }

TerminationSteps == { 1, 3 }

TerminationProbs == { 0, 50, 100 }

StepTerminates ==
    \E p \in TerminationProbs, n \in TerminationSteps : StepCall(p, n)

InitTerminates ==
    /\ InitWith(TerminationConfigs, Angles)
    /\ process = NoProcess
    /\ est = NoEstimate

NextTerminates == StepTerminates \/ StepLoop

SpecTerminates ==
    InitTerminates /\ [][NextTerminates]_all_vars /\ WF_all_vars(StepLoop)

\* ---- the estimator on grids of side about 32 (SpecFallback)
\* One walker on grids of side 1, 31, 32 and 33, moved along the column of
\* the seed; the estimator is called between two step() calls, with given
\* box sizes or with the defaults, and the simulation is not stepped after.
FallbackConfigs == { <<1, 1>>, <<31, 1>>, <<32, 1>>, <<33, 1>> }

StepFallback ==
    /\ est.pc = "none"
    /\ \E p \in EscapeProbs, n \in StepsPerCall :
           StepCallWith(p, n, EscapeAngles, EscapeMoves)

\* box_counting_dimension(sim.grid, mn, mx)
EstimateGridAny ==
    /\ pc = "idle"
    /\ \E mn \in MinBoxSizes, mx \in MaxBoxSizes :
           EstimateCall(GridImage, mn, mx)

InitFallback ==
    /\ InitWith(FallbackConfigs, EscapeAngles)
    /\ process = NoProcess
    /\ est = NoEstimate

NextFallback ==
    StepFallback \/ StepLoopEscape \/ EstimateGridAny \/ EstimateGridDefault
        \/ SizeLoop \/ CountLoop \/ EstimateReturn

SpecFallback == InitFallback /\ [][NextFallback]_all_vars

\* ------------------------------------------------------------ properties
\* The constructor returned an object.
Constructed == exc = "none"

\* step() has returned a value.
Returned == pc = "idle" /\ ret # -1

\* C1: the center cell grid[center][center] is occupied right after
\* construction and in every state any sequence of step() calls reaches, and
\* no step ever clears an occupied cell.
C1_SeedStaysOccupied ==
    /\ [](Constructed => <<center, center>> \in grid)
    /\ [][grid \subseteq grid']_vars

\* C1 witness: a call has returned after the aggregate grew, the center cell
\* still occupied.
C1_Witness ==
    /\ Returned
    /\ ret >= 1
    /\ Cardinality(grid) >= 2
    /\ <<center, center>> \in grid

\* C2: particles_added and max_radius never decrease, over any loop iteration
\* and any call, and max_radius is at least 1.
C2_Monotone ==
    /\ [][particles_added' >= particles_added /\ max_radius' >= max_radius]_vars
    /\ [](Constructed => max_radius >= 1)

\* C2 witness: both have grown twice.
C2_Witness == particles_added >= 3 /\ max_radius >= 3

\* C3: the value step() returns is the growth of particles_added over the
\* call, and the growth of the number of occupied cells over the call.
C3_ReturnIsGrowth ==
    Returned =>
        /\ ret = particles_added - pa_entry
        /\ ret = Cardinality(grid) - occ_entry

\* C3 witness: a call returned 2, two cells having been occupied during it.
C3_Witness == Returned /\ ret = 2 /\ Cardinality(grid) = occ_entry + 2

\* Two walkers stuck on the cell in the last iteration, and it was empty.
DoubleStick(cell) ==
    /\ cell \in last.fresh
    /\ \E i, j \in DOMAIN last.stuck :
          i # j /\ last.stuck[i] = cell /\ last.stuck[j] = cell

\* C4: when two or more walkers stick on the same empty cell in one
\* iteration, every cell newly occupied in that iteration, that cell
\* included, adds exactly 1 to `added` and to particles_added.
C4_NoDoubleCounting ==
    (\E cell \in last.fresh : DoubleStick(cell)) =>
        /\ last.d_added = Cardinality(last.fresh)
        /\ last.d_pa = Cardinality(last.fresh)
        /\ (Returned => ret = Cardinality(grid) - occ_entry)

\* C4 witness: two walkers stuck on one empty cell, and the call returned.
C4_Witness == Returned /\ \E cell \in last.fresh : DoubleStick(cell)

\* C5: particles_added is the number of occupied cells, the seed included.
C5_CountIsOccupied == Constructed => particles_added = Cardinality(grid)

\* C5 witness: three cells are occupied.
C5_Witness == Constructed /\ Cardinality(grid) = 3 /\ particles_added = 3

\* C6: when every call passes sticking probability 0, only the seed is
\* ever occupied, particles_added and max_radius stay 1, and every call
\* returns 0 and raises nothing.
C6_ZeroNeverSticks ==
    Constructed =>
        /\ particles_added = 1
        /\ max_radius = 1
        /\ grid = { <<center, center>> }
        /\ ret \in { -1, 0 }
        /\ pc \in { "idle", "step" }

\* C6 witness: a call returned 0 although a walker it moved is in contact
\* with the seed.
C6_Witness ==
    /\ Returned
    /\ ret = 0
    /\ \E i \in DOMAIN active :
          active[i] /\ HasNeighbor(grid_size, grid, walker_x[i], walker_y[i])

\* The state of a simulation a caller can observe.
Observable(s) == << s.grid, s.particles_added, s.max_radius >>

\* The whole mutable state of a simulation.
MutableState(s) ==
    << s.grid, s.walker_x, s.walker_y, s.active,
       s.particles_added, s.max_radius >>

\* C7: two simulations constructed with the same grid_size and batch_size
\* from the same random seed have the same grid, particles_added and
\* max_radius after the same sequence of step() calls.
C7_SameSeedSameTrajectory ==
    ( /\ process.live = Instances
      /\ process.born["A"] = process.born["B"]
      /\ process.calls["A"] = process.calls["B"] )
    => Observable(process.sims["A"]) = Observable(process.sims["B"])

\* C8: whatever is done with simulation B between the calls on simulation
\* A, the grid, walkers, particles_added and max_radius of A are those of A
\* run alone from the same seed.
C8_NoSharedMutableState ==
    ("A" \in process.live /\ ~process.reseeded)
    => MutableState(process.sims["A"]) = MutableState(process.alone)

\* What the contract admits as a grid side.
ValidSide == grid_size % 2 = 1 /\ grid_size >= 3

\* C9: constructing with a side that is even or smaller than 3 fails with
\* InvalidDimension, and only odd sides of at least 3 construct.
C9_InvalidSideRejected ==
    /\ ~ValidSide => (pc = "failed" /\ exc = "InvalidDimension")
    /\ Constructed => ValidSide

\* max_radius + spawn margin has reached side / 2.
Saturated == 2 * (max_radius + SpawnMargin) >= grid_size

\* C10: once growth has made max_radius + 5 reach side / 2 the call reports
\* GridSaturated, and no active walker is at coordinates outside the grid.
C10_SaturationSurfaced ==
    ValidSide =>
        /\ (Returned /\ ret >= 1 /\ Saturated) => exc = "GridSaturated"
        /\ \A i \in DOMAIN active :
              active[i] =>
                  /\ walker_x[i] \in 0 .. grid_size - 1
                  /\ walker_y[i] \in 0 .. grid_size - 1

\* C12: a call of the estimator on the grid of a simulation, whatever its
\* box sizes and wherever between two calls of step(), changes neither the
\* grid nor particles_added, max_radius or the walkers.
C12_EstimatorIsPure ==
    [][est' # est =>
          UNCHANGED << grid, particles_added, max_radius,
                       walker_x, walker_y, active >>]_all_vars

\* C12 witness: a call on the grid returned a slope after a step() that
\* grew the aggregate.
C12_Witness ==
    /\ est.pc = "done"
    /\ est.result.kind = "slope"
    /\ est.image = GridImage
    /\ Returned
    /\ particles_added >= 2

\* Fewer than 2 box sizes were generated.
FewSizes == Len(est.box_sizes) < 2

\* Some box size yielded a count of 0.
ZeroCount == \E k \in 1 .. Len(est.counts) : est.counts[k] = 0

\* C13: the call returns, and what it returns is the constant 1.71 exactly
\* when fewer than 2 box sizes were generated or some box size counted 0
\* boxes, and the slope fitted to the sizes and counts otherwise.
C13_FallbackExactlyWhenDegenerate ==
    est.pc = "done" =>
        /\ est.result.kind \in { "constant", "slope" }
        /\ est.result = Fallback <=> (FewSizes \/ ZeroCount)
        /\ ~(FewSizes \/ ZeroCount) =>
               est.result = FittedSlope(est.box_sizes, est.counts)

\* C13 witness: two box sizes or more, one of which counted no box, and the
\* call returned 1.71.
C13_Witness ==
    /\ est.pc = "done"
    /\ ~FewSizes
    /\ ZeroCount
    /\ est.result.hundredths = 171

\* 2^k
RECURSIVE Pow2(_)
Pow2(k) == IF k = 0 THEN 1 ELSE 2 * Pow2(k - 1)

\* The box sizes are min_box_size * 2^k, k = 0, 1, ..., up to the last one
\* that does not exceed max_box_size.
SizesDoubleToMax ==
    /\ \A k \in 1 .. Len(est.box_sizes) :
          /\ est.box_sizes[k] = est.min_box_size * Pow2(k - 1)
          /\ est.box_sizes[k] <= est.max_box_size
    /\ est.min_box_size * Pow2(Len(est.box_sizes)) > est.max_box_size

\* C14: for min_box_size >= 1 the box sizes are min_box_size * 2^k in
\* increasing order up to max_box_size, and the loop that generates them
\* ends.
C14_SizesGeometric ==
    /\ [](est.pc \in { "counts", "fit", "done" } => SizesDoubleToMax)
    /\ (est.pc = "sizes" ~> est.pc = "counts")

\* C14 witness: three sizes were generated, and max_box_size is none of them.
C14_Witness ==
    /\ est.pc = "done"
    /\ est.box_sizes = << 1, 2, 4 >>
    /\ est.max_box_size = 5

\* The tile of a cell in the partition into s-by-s tiles aligned at (0, 0).
TileOf(cell, s) == << cell[1] \div s, cell[2] \div s >>

\* The tiles of the code's loops for box size s that hold the cell.
TilesHolding(img, cell, s) ==
    { t \in Range(img.rows, s) \X Range(img.cols, s) :
        cell \in BoxCells(img, t[1], t[2], s) }

\* C15: the count for each box size is the number of tiles of the partition
\* that hold an occupied cell, and each occupied cell is in one tile only.
C15_CountIsOccupiedTiles ==
    \A k \in 1 .. Len(est.counts) :
        /\ est.counts[k] =
               Cardinality({ TileOf(cell, est.box_sizes[k]) :
                               cell \in est.image.cells })
        /\ \A cell \in est.image.cells :
               Cardinality(TilesHolding(est.image, cell, est.box_sizes[k])) = 1

\* C15 witness: a 4 x 5 image counted with boxes of 2, an occupied cell of
\* which is in the truncated last column of tiles.
C15_Witness ==
    /\ est.pc = "done"
    /\ est.image.rows = 4 /\ est.image.cols = 5
    /\ est.box_sizes = << 2 >>
    /\ est.counts = << 2 >>
    /\ \E cell \in est.image.cells : cell[2] = 4

\* A cell with both coordinates in 1 .. side - 2.
Interior(cell) ==
    /\ 1 <= cell[1] /\ cell[1] <= grid_size - 2
    /\ 1 <= cell[2] /\ cell[2] <= grid_size - 2

\* Some walker is at coordinates outside the grid.
WalkerOutsideGrid ==
    \E i \in DOMAIN active :
        \/ walker_x[i] \notin 0 .. grid_size - 1
        \/ walker_y[i] \notin 0 .. grid_size - 1

\* C11: every cell step() commits, newly occupied or not, and so every
\* occupied cell but the seed, has both coordinates in 1 .. side - 2.
C11_CommitsInsideGrid ==
    Constructed =>
        /\ \A i \in DOMAIN last.stuck :
              last.stuck[i] # << >> => Interior(last.stuck[i])
        /\ \A cell \in last.fresh : Interior(cell)
        /\ \A cell \in grid \ SeedGrid(center) : Interior(cell)

\* C11 witness: a cell was written while the spawn circle is past the grid
\* edge and a walker is at coordinates outside the grid.
C11_Witness ==
    /\ Constructed
    /\ last.fresh # {}
    /\ Saturated
    /\ WalkerOutsideGrid

\* ---- the micro-step about to run
\* The locals and argument of the next iteration of the loop: those of the
\* call in progress, or of a call the driver may make.
NextKillRSq == IF pc = "step" THEN kill_r_sq ELSE KillRSq(Self)
NextAdded == IF pc = "step" THEN added ELSE 0
NextProbs == IF pc = "step" THEN { sticking_prob } ELSE StickingProbs

\* self.active at the move, after the respawn-if-empty guard.
ActiveAtMove(s) == Reactivate(s.batch_size, s.active, FreshBatch(s))

\* The draws of the guard and of the move of the next iteration.
NextMoveDraws ==
    IF Constructed
    THEN DrawsOn(batch_size, FreshBatch(Self), Angles, <<3, 4, 5>>)
             \X [Walkers(batch_size) -> Moves]
    ELSE {}

\* The walkers after the move and the checks, for the draws d.
NextMove(d) == MoveAndCheck(Self, NextKillRSq, d[1], d[2])

\* C16: in every micro-step the escape check deactivates a walker iff its
\* squared distance from the centre exceeds (max_radius + 50)^2, max_radius
\* being the aggregate's at that micro-step.
C16_EscapeUsesCurrentRadius ==
    \A d \in NextMoveDraws :
        LET m == NextMove(d)
        IN  \A i \in Walkers(batch_size) :
                Escaped(center, NextKillRSq, m.x[i], m.y[i]) <=>
                    Escaped(center, KillRSq(Self), m.x[i], m.y[i])

\* C17: every walker deactivated in a micro-step is respawned in it, so at
\* the end of every micro-step, and when step() returns, all walkers are
\* active.
C17_AllActiveAfterMicroStep ==
    Constructed => \A i \in Walkers(batch_size) : active[i]

\* The cell of walker i before the move, the guard's angles being ang0.
CellAtMove(i, ang0) ==
    IF i \in FreshBatch(Self)
    THEN << SpawnX(center, max_radius + SpawnMargin, ang0[i]),
            SpawnY(center, max_radius + SpawnMargin, ang0[i]) >>
    ELSE << walker_x[i], walker_y[i] >>

\* C18: at the move of every micro-step all walkers are active; a batch
\* none of which is active when the micro-step begins is first spawned
\* afresh on the spawn circle, and each of its walkers moves by one cell
\* from there.
C18_AllActiveAtMove ==
    Constructed =>
        /\ \A i \in Walkers(batch_size) : ActiveAtMove(Self)[i]
        /\ FreshBatch(Self) # {} =>
           \A d \in NextMoveDraws :
              LET m == NextMove(d)
              IN  \A i \in Walkers(batch_size) :
                      << m.x[i], m.y[i] >> =
                          << CellAtMove(i, d[1])[1] + neighbors[d[2][i] + 1][1],
                             CellAtMove(i, d[1])[2] + neighbors[d[2][i] + 1][2] >>

\* C18 witness: no walker is active when an iteration of the call in
\* progress begins.
C18_Witness ==
    /\ Constructed
    /\ pc = "step"
    /\ \A i \in Walkers(batch_size) : ~active[i]

\* One of the 4 axis-aligned neighbour cells of (x, y) is occupied.
TouchesAggregate(x, y) ==
    \E n \in 1 .. 4 : << x + neighbors[n][1], y + neighbors[n][2] >> \in grid

\* The walkers after the move and the checks, for each draw of the next
\* iteration in which some walker stays active.
NextContacts ==
    { m \in { NextMove(d) : d \in NextMoveDraws } : ~NoneActive(Self, m) }

\* C19: always, a walker sticks in a micro-step iff it is active after the escape
\* and bounds checks, one of its 4 neighbour cells is occupied, and its
\* draw is below the sticking probability.
C19_SticksIffActiveContactDraw ==
    [](
        \A m \in NextContacts :
        \A p \in NextProbs :
        \A u \in [Walkers(batch_size) -> UniformDraws] :
            LET will_stick == WillStick(grid_size, batch_size, grid, m.x, m.y,
                                        m.active, u, p)
            IN  \A i \in Walkers(batch_size) :
                    will_stick[i] <=>
                        /\ m.active[i]
                        /\ TouchesAggregate(m.x[i], m.y[i])
                        /\ u[i] < p
    )

\* C19 witness: in a micro-step one walker sticks and another, deactivated
\* by the bounds check, does not, its draw being below the probability.
C19_Witness ==
    \E m \in NextContacts :
    \E p \in NextProbs :
    \E i, j \in Walkers(batch_size) :
        /\ m.active[i]
        /\ TouchesAggregate(m.x[i], m.y[i])
        /\ 0 < p
        /\ ~m.active[j]
        /\ OutOfBounds(grid_size, m.x[j], m.y[j])

\* C20: always, after the bounds check every walker still active is in
\* 1 .. side - 2 in both coordinates, so its four neighbour probes address
\* cells of the grid without clamping.
C20_ActiveWalkersInterior ==
    [](
        \A d \in NextMoveDraws :
            LET m == NextMove(d)
            IN  \A i \in Walkers(batch_size) :
                    m.active[i] =>
                        /\ Interior(<< m.x[i], m.y[i] >>)
                        /\ \A n \in 1 .. 4 :
                              /\ m.x[i] + neighbors[n][1] \in 0 .. grid_size - 1
                              /\ m.y[i] + neighbors[n][2] \in 0 .. grid_size - 1
    )

\* C20 witness: a walker is active after the bounds check at x = side - 2,
\* so one of its probes addresses the last row of the grid.
C20_Witness ==
    \E d \in NextMoveDraws :
        \E i \in Walkers(batch_size) :
            /\ NextMove(d).active[i]
            /\ NextMove(d).x[i] = grid_size - 2

\* int(np.sqrt((px - center)**2 + (py - center)**2)) + 1 for a cell: one
\* more than the distance from the centre, truncated to an integer.
RadiusOf(cell) ==
    ISqrt((cell[1] - center) * (cell[1] - center)
              + (cell[2] - center) * (cell[2] - center)) + 1

\* The largest of the radii of the cells of g, and of r.
RECURSIVE MaxRadiusOver(_, _)
MaxRadiusOver(g, r) ==
    IF g = {} THEN r
    ELSE LET cell == CHOOSE x \in g : TRUE
         IN  MaxRadiusOver(g \ { cell }, Max(r, RadiusOf(cell)))

\* C21: in every reachable state max_radius is 1 plus the distance from the
\* centre to the farthest occupied cell, truncated to an integer (1 when
\* only the seed is occupied), and every step raises it to the largest of
\* its value and the distance + 1 of the cells newly occupied.
C21_MaxRadiusIsFarthestCell ==
    /\ [](Constructed => max_radius = MaxRadiusOver(grid, 0))
    /\ [][max_radius' = MaxRadiusOver(grid' \ grid, max_radius)]_all_vars

\* C21 witness: a cell at distance 2 is occupied and max_radius is 3.
C21_Witness ==
    /\ Constructed
    /\ max_radius = 3
    /\ \E cell \in grid : RadiusOf(cell) = 3

\* Angles of np.random.uniform(0, 2 pi) with rational cosine and sine, in
\* the four quadrants and on the axes.
SpawnAngles ==
    Angles \cup { <<1, 0, 1>>, <<0, 1, 1>>, <<-1, 0, 1>>, <<0, -1, 1>>,
                  <<4, 3, 5>>, <<-3, 4, 5>>, <<3, -4, 5>>,
                  <<5, 12, 13>>, <<-12, 5, 13>>, <<12, -5, 13>> }

\* The squared distance of a cell from the centre.
DistSq(x, y) == (x - center) * (x - center) + (y - center) * (y - center)

\* (x, y) is not occupied and is farther from the centre than every
\* occupied cell.
OutsideAggregate(x, y) ==
    /\ << x, y >> \notin grid
    /\ \A cell \in grid : DistSq(x, y) > DistSq(cell[1], cell[2])

\* C22: every spawn and respawn puts the walker outside the aggregate: the
\* cell at radius max_radius + 5, for any angle, is not occupied and is
\* farther from the centre than every occupied cell, and the walkers spawned
\* by the constructor and respawned after sticking are on such cells.
C22_SpawnOutsideAggregate ==
    /\ [](Constructed =>
            \A ang \in SpawnAngles :
                OutsideAggregate(SpawnX(center, max_radius + SpawnMargin, ang),
                                 SpawnY(center, max_radius + SpawnMargin, ang)))
    /\ [](Constructed /\ ret = -1 /\ pc = "idle" =>
            \A i \in Walkers(batch_size) :
                OutsideAggregate(walker_x[i], walker_y[i]))
    /\ [][\A i \in Walkers(batch_size) :
              last'.stuck # << >> /\ last'.stuck[i] # << >> =>
                  /\ active'[i]
                  /\ << walker_x'[i], walker_y'[i] >> \notin grid'
                  /\ \A cell \in grid' :
                        (walker_x'[i] - center) * (walker_x'[i] - center)
                            + (walker_y'[i] - center) * (walker_y'[i] - center)
                        > DistSq(cell[1], cell[2])]_all_vars

\* C22 witness: a walker has stuck and has been respawned around an
\* aggregate of more than the seed.
C22_Witness ==
    /\ Constructed
    /\ last.stuck # << >>
    /\ \E i \in Walkers(batch_size) : last.stuck[i] # << >>
    /\ Cardinality(grid) >= 2

\* The aggregate and the call's counter, as the commit loop holds them.
Aggregate ==
    [ grid            |-> grid,
      particles_added |-> particles_added,
      added           |-> NextAdded,
      max_radius      |-> max_radius ]

\* Every walker that stuck in the last iteration stuck on a cell of g.
SticksWithin(stuck, g) ==
    /\ stuck # << >>
    /\ \E i \in DOMAIN stuck : stuck[i] # << >>
    /\ \A i \in DOMAIN stuck : stuck[i] # << >> => stuck[i] \in g

\* C23: committing a stick on a cell already occupied changes nothing of
\* the aggregate: the grid, particles_added, max_radius and the call's
\* `added` are as before that commit.
C23_CommitOnOccupiedIsNoOp ==
    /\ [](Constructed =>
            \A cell \in grid :
                CommitOne(center, Aggregate, cell[1], cell[2]) = Aggregate)
    /\ [][SticksWithin(last'.stuck, grid) =>
              /\ grid' = grid
              /\ particles_added' = particles_added
              /\ max_radius' = max_radius
              /\ last'.d_added = 0
              /\ pc' = "step" => added' = NextAdded
              /\ pc' = "idle" => ret' = NextAdded]_all_vars

\* C23 witness: a walker stuck on a cell that was occupied before the
\* iteration, in which no cell was newly occupied.
C23_Witness ==
    /\ Constructed
    /\ SticksWithin(last.stuck, grid)
    /\ last.fresh = {}

\* Walker i is active on a cell of the spawn circle of the aggregate.
OnSpawnCircle(i) ==
    /\ active[i]
    /\ \E ang \in Angles :
          /\ walker_x[i] = SpawnX(center, max_radius + SpawnMargin, ang)
          /\ walker_y[i] = SpawnY(center, max_radius + SpawnMargin, ang)

\* C24: when several walkers stick on one cell in a micro-step, each of
\* them is deactivated as stuck and respawned on the spawn circle, and the
\* cell is occupied once.
C24_AllTiedWalkersRespawned ==
    \A cell \in last.fresh :
        DoubleStick(cell) =>
            /\ cell \in grid
            /\ last.d_pa = Cardinality(last.fresh)
            /\ \A i \in DOMAIN last.stuck :
                  last.stuck[i] = cell => OnSpawnCircle(i)

\* C24 witness: two walkers stuck on one cell, the only cell newly occupied
\* in that micro-step.
C24_Witness ==
    \E cell \in last.fresh :
        /\ DoubleStick(cell)
        /\ last.fresh = { cell }
        /\ \A i \in DOMAIN last.stuck : OnSpawnCircle(i)

\* The orders in which the walkers of S can be processed.
RECURSIVE Orders(_)
Orders(S) ==
    IF S = {} THEN { << >> }
    ELSE UNION { { << i >> \o o : o \in Orders(S \ { i }) } : i \in S }

\* The commit loop over the walkers of `order`, in that order.
RECURSIVE CommitInOrder(_, _, _, _)
CommitInOrder(a, wx, wy, order) ==
    IF order = << >> THEN a
    ELSE CommitInOrder(CommitOne(center, a, wx[Head(order)], wy[Head(order)]),
                       wx, wy, Tail(order))

\* C25: always, for the walkers of the next micro-step and any set S of
\* them that stick, every order of processing S gives the grid,
\* particles_added, max_radius and `added` that the loop's order gives; and
\* the walkers that stick are those in contact with the cells occupied
\* before the micro-step's commits whose draw is below the probability.
C25_CommitOrderIrrelevant ==
    [](
        \A m \in NextContacts :
            /\ \A S \in SUBSET Candidates(Self, m) :
               \A order \in Orders(S) :
                   CommitInOrder(Aggregate, m.x, m.y, order) =
                       CommitFrom(center, batch_size, Aggregate, m.x, m.y,
                                  [i \in Walkers(batch_size) |-> i \in S], 0)
            /\ \A p \in NextProbs :
               \A u \in DrawsOn(batch_size, Candidates(Self, m),
                                UniformDraws, 50) :
                   StickAndCommit(Self, p, NextAdded, m, u).will_stick =
                       [i \in Walkers(batch_size) |->
                           /\ m.active[i]
                           /\ HasNeighbor(grid_size, grid, m.x[i], m.y[i])
                           /\ u[i] < p]
    )

\* C25 witness: in a micro-step two walkers can stick on different cells,
\* at different distances from the centre.
C25_Witness ==
    \E m \in NextContacts :
    \E i, j \in Candidates(Self, m) :
        /\ << m.x[i], m.y[i] >> \notin grid
        /\ << m.x[j], m.y[j] >> \notin grid
        /\ RadiusOf(<< m.x[i], m.y[i] >>) < RadiusOf(<< m.x[j], m.y[j] >>)

\* The side is odd and at least 3.
OddSide == grid_size >= 3 /\ grid_size % 2 = 1

\* (x, y) is a cell of the array.
InGrid(x, y) == x \in 0 .. grid_size - 1 /\ y \in 0 .. grid_size - 1

\* self.grid[np.clip(x, 0, grid_size - 1), np.clip(y, 0, grid_size - 1)] > 0
ProbeReads(x, y) ==
    << Clip(x, 0, grid_size - 1), Clip(y, 0, grid_size - 1) >> \in grid

C27_StepTerminates ==
    /\ [][/\ pc = "idle" => steps_left' + 1 \in TerminationSteps
          /\ pc = "step" => steps_left' = steps_left - 1
          /\ pc' = "idle" <=> steps_left' = 0]_all_vars
    /\ (pc = "step" ~> Returned)

\* C27 witness: a call at sticking probability 0.0 is in progress, its
\* only walker is inactive, and every spawn position is outside the grid.
C27_Witness ==
    /\ Constructed
    /\ pc = "step"
    /\ sticking_prob = 0
    /\ \A i \in Walkers(batch_size) : ~active[i]
    /\ \A ang \in Angles :
          ~InGrid(SpawnX(center, max_radius + SpawnMargin, ang),
                  SpawnY(center, max_radius + SpawnMargin, ang))

\* The cells a and b are axis-adjacent.
Adjacent(a, b) ==
    \E n \in 1 .. 4 :
        b = << a[1] + neighbors[n][1], a[2] + neighbors[n][2] >>

\* The cells of g joined to a cell of S by a path of axis-adjacent cells
\* of g.
RECURSIVE JoinedTo(_, _)
JoinedTo(S, g) ==
    LET T == S \cup { b \in g : \E a \in S : Adjacent(a, b) }
    IN  IF T = S THEN S ELSE JoinedTo(T, g)

\* C28: the aggregate is 4-connected to the seed: every occupied cell is
\* joined to the centre by a path of axis-adjacent occupied cells, and every
\* cell newly occupied has an axis-adjacent cell that was occupied before
\* it.
C28_AggregateConnected ==
    /\ [](Constructed => JoinedTo(SeedGrid(center), grid) = grid)
    /\ [][\A b \in grid' \ grid : \E a \in grid : Adjacent(a, b)]_all_vars

\* C28 witness: three cells are occupied, one of them not adjacent to the
\* centre.
C28_Witness ==
    /\ Constructed
    /\ Cardinality(grid) >= 3
    /\ \E b \in grid :
          b # << center, center >> /\ ~Adjacent(<< center, center >>, b)

\* C29: max_radius grows by at most 1 in a micro-step, however many
\* walkers stick in it.
C29_RadiusGrowsByOne ==
    [][max_radius' <= max_radius + 1]_all_vars

\* C29 witness: two walkers stuck on two cells in one micro-step, and
\* max_radius is 2.
C29_Witness ==
    /\ Constructed
    /\ Cardinality(last.fresh) = 2
    /\ \A i \in DOMAIN last.stuck : last.stuck[i] \in last.fresh
    /\ max_radius = 2

\* C30: on the grid of a simulation every box size counts at least one
\* box, so the estimator returns the fallback 1.71 iff fewer than 2 box
\* sizes are generated, that is iff max_box_size < 2 * min_box_size; a call
\* with the defaults has min_box_size 2 and max_box_size side // 8, and
\* returns the fallback iff side < 32.
C30_FallbackIffFewSizes ==
    /\ [](est.pc = "done" =>
            /\ \A k \in 1 .. Len(est.counts) : est.counts[k] >= 1
            /\ est.result = Fallback <=> Len(est.box_sizes) < 2
            /\ Len(est.box_sizes) < 2 <=>
                   est.max_box_size < 2 * est.min_box_size
            /\ est.min_box_size = 2 /\ est.max_box_size = est.image.rows \div 8
                   => (est.result = Fallback <=> est.image.rows < 32))
    /\ [][EstimateGridDefault =>
              /\ est'.image = GridImage
              /\ est'.min_box_size = 2
              /\ est'.max_box_size = grid_size \div 8]_all_vars

\* C30 witness: a call with the defaults on a grid of side at least 32,
\* grown past the seed, returned a fitted slope.
C30_Witness ==
    /\ est.pc = "done"
    /\ est.image = GridImage
    /\ grid_size >= 32
    /\ Cardinality(grid) >= 2
    /\ est.min_box_size = 2
    /\ est.max_box_size = grid_size \div 8
    /\ est.result.kind = "slope"

============================================================================
